---- MODULE Spec2Model ----
(***************************************************************************)
(* Event-to-notification dispatch of the AWS autoscaler events module:     *)
(* AwsEventManagerBase / AwsEventManager / AwsEventPublisher of            *)
(* python/ray/autoscaler/_private/aws/events.py, together with the         *)
(* process-wide callback registry (global_event_system), the event catalog *)
(* (event_enum_values), the SNS client and cli_logger.abort, which the     *)
(* module imports.                                                         *)
(*                                                                         *)
(* Python strings that the code inspects (the notification URI) are        *)
(* sequences of one-character strings, so that startswith, `in` and split  *)
(* are computed as Python computes them.  Python dicts are functions from  *)
(* key strings to values.                                                  *)
(***************************************************************************)
EXTENDS Integers, Sequences, FiniteSets, TLC

VARIABLES
    callback_map,   \* global_event_system: event name -> sequence of bindings
    managers,       \* the AwsEventManager of every constructed facade
    frame,          \* per thread: the execute_callback call in progress
    last,           \* how the last finished operation ended
    published,      \* per event: counted publish calls entered
    ncalls          \* per display state: sns_client.publish calls they made

vars == <<callback_map, managers, frame, last, published, ncalls>>

----------------------------------------------------------------------------
(* Bounds *)

MaxFacades == 2
MaxClock == 1

Callers == {1, 2}

----------------------------------------------------------------------------
(* Python strings and dicts *)

EmptyDict == [k \in {} |-> TRUE]

\* {**base, **over}
Overlay(base, over) ==
    [k \in DOMAIN base \cup DOMAIN over |->
        IF k \in DOMAIN over THEN over[k] ELSE base[k]]

\* a dict without key k
Without(d, k) == [j \in DOMAIN d \ {k} |-> d[j]]

\* s.startswith(p)
StartsWith(s, p) == Len(s) >= Len(p) /\ SubSeq(s, 1, Len(p)) = p

\* sub in s
Contains(s, sub) ==
    \E i \in 1..(Len(s) - Len(sub) + 1) : SubSeq(s, i, i + Len(sub) - 1) = sub

\* s.split(":")
RECURSIVE SplitFrom(_, _, _)
SplitFrom(s, i, cur) ==
    IF i > Len(s) THEN <<cur>>
    ELSE IF s[i] = ":" THEN <<cur>> \o SplitFrom(s, i + 1, <<>>)
    ELSE SplitFrom(s, i + 1, Append(cur, s[i]))

Split(s) == SplitFrom(s, 1, <<>>)

None == <<"<None>">>

----------------------------------------------------------------------------
(* String literals of events.py *)

ARN_AWS == <<"a", "r", "n", ":", "a", "w", "s">>
ARN_SNS == ARN_AWS \o <<":", "s", "n", "s">>
ARN_LAMBDA == ARN_AWS \o <<":", "l", "a", "m", "b", "d", "a">>
ARN_LOGS == ARN_AWS \o <<":", "l", "o", "g", "s">>
ARN_APIGATEWAY ==
    ARN_AWS \o <<":", "a", "p", "i", "g", "a", "t", "e", "w", "a", "y">>

----------------------------------------------------------------------------
(* The event catalog: an ordered enumeration, each entry with its member    *)
(* name, its display state and its integer value (rank).                    *)

event_enum_values ==
    << [name |-> "ScriptStarted", state |-> "ScriptStarted", value |-> 1],
       [name |-> "ScriptInProgress", state |-> "ScriptInProgress", value |-> 2],
       [name |-> "ScriptCompleted", state |-> "ScriptCompleted", value |-> 3] >>

Events == {event_enum_values[i] : i \in 1..Len(event_enum_values)}
EventNames == {e.name : e \in Events}
EventStates == {e.state : e \in Events}

----------------------------------------------------------------------------
(* Inputs *)

\* "arn:aws:sns:r1:9:a" and "arn:aws:sns:r2:9:b"
SnsTopicA == ARN_SNS \o <<":", "r", "1", ":", "9", ":", "a">>
SnsTopicB == ARN_SNS \o <<":", "r", "2", ":", "9", ":", "b">>
\* "arn:aws:sns": accepted by the constructor, no region field
SnsShort == ARN_SNS
LambdaArn == ARN_LAMBDA \o <<":", "r", "1", ":", "9", ":", "f">>
LogsArn == ARN_LOGS \o <<":", "r", "1", ":", "9", ":", "g">>
ApiGatewayArn == ARN_APIGATEWAY \o <<":", "r", "1", ":", ":", "/">>
\* accepted by the constructor, none of the four prefixes
S3Arn == ARN_AWS \o <<":", "s", "3", ":", ":", ":", "b">>
EmbeddedArn == <<"x", "-">> \o ARN_SNS
\* rejected by the constructor
EmptyUri == <<>>
NotAnArn == <<"s", "n", "s", ":", "a">>

TeamInfra == [team |-> "infra"]
\* parameters that name fields the callback writes into the message
Overrides ==
    [team |-> "infra", state |-> "mine", setupEventMetadata |-> [mine |-> TRUE],
     stateSequence |-> -1, timestamp |-> -1, rayNodeId |-> "mine"]

Cfg(uri) == [notification_uri |-> uri]
CfgP(uri, p) == [notification_uri |-> uri, parameters |-> p]

GoodConfigs ==
    { CfgP(SnsTopicA, TeamInfra), Cfg(SnsTopicB), CfgP(SnsTopicB, Overrides),
      CfgP(LambdaArn, TeamInfra), CfgP(LogsArn, TeamInfra),
      CfgP(ApiGatewayArn, TeamInfra),
      CfgP(S3Arn, TeamInfra), Cfg(EmbeddedArn) }

BadConfigs ==
    { EmptyDict, [parameters |-> TeamInfra], Cfg(None),
      CfgP(EmptyUri, TeamInfra), Cfg(NotAnArn) }

Configs == GoodConfigs \cup BadConfigs \cup {CfgP(SnsShort, TeamInfra)}

HeadNode == [node_id |-> "i-1", is_head_node |-> TRUE]
WorkerNode == [node_id |-> "i-2", is_head_node |-> FALSE]

\* payloads other producers hand to global_event_system.execute_callback
HostPayloads ==
    { EmptyDict,
      [node_context |-> HeadNode],
      [node_context |-> EmptyDict],
      [command |-> "setup", node_context |-> WorkerNode] }

TraceIds == {"t1", "t2"}

\* what sns_client.publish can do
Delivered == [kind |-> "ok"]
ClientErrors ==
    { [kind |-> "ClientError", Error |-> [Code |-> "AuthorizationError"]],
      [kind |-> "ClientError", Error |-> [Code |-> "Throttling"]] }
OtherFailure == [kind |-> "EndpointConnectionError"]
TransportOutcomes == {Delivered, OtherFailure} \cup ClientErrors

----------------------------------------------------------------------------
(* global_event_system: the callback registry *)

\* a binding: the bound method (handler, and the uri of the manager it is
\* bound to), the positional arguments and the keyword arguments given at
\* registration
Binding(handler, uri, args, kwargs) ==
    [handler |-> handler, uri |-> uri, args |-> args, kwargs |-> kwargs]

\* add_callback_handler(event, callback, *args, **kwargs): appends, never fails
add_callback_handler(map, event, handler, uri, args, kwargs) ==
    [map EXCEPT ![event.name] = Append(@, Binding(handler, uri, args, kwargs))]

\* SnsHelper(region)
SnsHelper(region) == [client |-> "sns", region |-> region]

----------------------------------------------------------------------------
(* AwsEventManagerBase / AwsEventManager *)

\* self.uri.split(":")[3]
_get_region(self) == Split(self.uri)[4]

\* whether self.uri.split(":")[3] raises IndexError
_get_region_raises(self) == Len(Split(self.uri)) < 4

\* the first branch of add_callback with the handler put in front of the
\* handlers registered before it
RegisterSns_in_front(self, event, map) ==
    IF _get_region_raises(self)
    THEN [raised |-> "IndexError", map |-> map]
    ELSE [raised |-> "none",
          map |-> [map EXCEPT ![event.name] =
                      <<Binding("_sns_callback", self.uri,
                                <<SnsHelper(_get_region(self))>>,
                                self.parameters)>> \o @]]

\* the first branch of add_callback: the SnsHelper is built, then the handler
\* is registered with it and with **self.parameters
RegisterSns(self, event, map) ==
    IF _get_region_raises(self)
    THEN [raised |-> "IndexError", map |-> map]
    ELSE [raised |-> "none",
          map |-> add_callback_handler(map, event, "_sns_callback", self.uri,
                      <<SnsHelper(_get_region(self))>>, self.parameters)]

\* the other branches of add_callback: the handler alone is registered
RegisterStub(self, event, map, handler) ==
    [raised |-> "none",
     map |-> add_callback_handler(map, event, handler, self.uri, <<>>, EmptyDict)]

\* add_callback that does not register a target twice for an event
add_callback_dedup(self, event, map) ==
    IF \E i \in 1..Len(map[event.name]) : map[event.name][i].uri = self.uri
    THEN [raised |-> "none", map |-> map]
    ELSE IF StartsWith(self.uri, ARN_SNS) THEN RegisterSns(self, event, map)
    ELSE IF StartsWith(self.uri, ARN_LAMBDA)
    THEN RegisterStub(self, event, map, "_lambda_callback")
    ELSE IF StartsWith(self.uri, ARN_LOGS)
    THEN RegisterStub(self, event, map, "_cloudwatch_callback")
    ELSE IF StartsWith(self.uri, ARN_APIGATEWAY)
    THEN RegisterStub(self, event, map, "_api_gateway_callback")
    ELSE [raised |-> "none", map |-> map]

\* add_callback that falls back to a handler when no prefix matches
add_callback_fallback(self, event, map) ==
    IF StartsWith(self.uri, ARN_SNS) THEN RegisterSns(self, event, map)
    ELSE IF StartsWith(self.uri, ARN_LAMBDA)
    THEN RegisterStub(self, event, map, "_lambda_callback")
    ELSE IF StartsWith(self.uri, ARN_LOGS)
    THEN RegisterStub(self, event, map, "_cloudwatch_callback")
    ELSE RegisterStub(self, event, map, "_api_gateway_callback")

\* add_callback that registers the SNS handler without **self.parameters
add_callback_no_parameters(self, event, map) ==
    IF StartsWith(self.uri, ARN_SNS)
    THEN RegisterSns([self EXCEPT !.parameters = EmptyDict], event, map)
    ELSE IF StartsWith(self.uri, ARN_LAMBDA)
    THEN RegisterStub(self, event, map, "_lambda_callback")
    ELSE IF StartsWith(self.uri, ARN_LOGS)
    THEN RegisterStub(self, event, map, "_cloudwatch_callback")
    ELSE IF StartsWith(self.uri, ARN_APIGATEWAY)
    THEN RegisterStub(self, event, map, "_api_gateway_callback")
    ELSE [raised |-> "none", map |-> map]

\* add_callback(self, event): [raised, map]
add_callback(self, event, map) ==
    IF StartsWith(self.uri, ARN_SNS) THEN RegisterSns(self, event, map)
    ELSE IF StartsWith(self.uri, ARN_LAMBDA)
    THEN RegisterStub(self, event, map, "_lambda_callback")
    ELSE IF StartsWith(self.uri, ARN_LOGS)
    THEN RegisterStub(self, event, map, "_cloudwatch_callback")
    ELSE IF StartsWith(self.uri, ARN_APIGATEWAY)
    THEN RegisterStub(self, event, map, "_api_gateway_callback")
    ELSE [raised |-> "none", map |-> map]

\* AwsEventManager.__init__ without its two assertions
AwsEventManager_init_unchecked(events_config) ==
    IF "notification_uri" \notin DOMAIN events_config
    THEN [raised |-> "KeyError", self |-> EmptyDict]
    ELSE [raised |-> "none",
          self |-> [uri |-> events_config["notification_uri"],
                    parameters |->
                        IF "parameters" \in DOMAIN events_config
                        THEN events_config["parameters"]
                        ELSE EmptyDict]]

\* AwsEventManager.__init__(events_config): [raised, self]
AwsEventManager_init(events_config) ==
    IF "notification_uri" \notin DOMAIN events_config
    THEN [raised |-> "KeyError", self |-> EmptyDict]
    ELSE LET notification_uri == events_config["notification_uri"] IN
         IF notification_uri = None
         THEN [raised |-> "AssertionError", self |-> EmptyDict]
         ELSE IF ~Contains(notification_uri, ARN_AWS)
         THEN [raised |-> "AssertionError", self |-> EmptyDict]
         ELSE [raised |-> "none",
               self |-> [uri |-> notification_uri,
                         parameters |->
                             IF "parameters" \in DOMAIN events_config
                             THEN events_config["parameters"]
                             ELSE EmptyDict]]

\* for event in event_enum_values[i..]: self.events_mgr.add_callback(event)
RECURSIVE RegisterFrom(_, _, _)
RegisterFrom(self, i, map) ==
    IF i > Len(event_enum_values) THEN [raised |-> "none", map |-> map]
    ELSE LET r == add_callback(self, event_enum_values[i], map) IN
         IF r.raised # "none" THEN r ELSE RegisterFrom(self, i + 1, r.map)

\* AwsEventPublisher.__init__ that leaves the registration for later
AwsEventPublisher_init_lazy(events_config, map) ==
    LET m == AwsEventManager_init(events_config) IN
    [raised |-> m.raised, self |-> m.self, map |-> map]

\* AwsEventPublisher.__init__(events_config): [raised, self, map]
AwsEventPublisher_init(events_config, map) ==
    LET m == AwsEventManager_init(events_config) IN
    IF m.raised # "none" THEN [raised |-> m.raised, self |-> EmptyDict, map |-> map]
    ELSE LET r == RegisterFrom(m.self, 1, map) IN
         [raised |-> r.raised, self |-> m.self, map |-> r.map]

\* the message with the rank itself as stateSequence
BuildMessage_one_indexed(params, event, event_dict, t) ==
    Overlay(params,
            [state |-> event.state,
             setupEventMetadata |-> event_dict,
             stateSequence |-> event.value,
             timestamp |-> t])

\* the message with **params written last: {"state": ..., ..., **params}
BuildMessage_params_last(params, event, event_dict, t) ==
    Overlay([state |-> event.state,
             setupEventMetadata |-> event_dict,
             stateSequence |-> event.value - 1,
             timestamp |-> t],
            params)

\* message = {**params, "state": ..., "setupEventMetadata": ...,
\*            "stateSequence": ..., "timestamp": ...}
BuildMessage(params, event, event_dict, t) ==
    Overlay(params,
            [state |-> event.state,
             setupEventMetadata |-> event_dict,
             stateSequence |-> event.value - 1,
             timestamp |-> t])

\* the node keys with HEAD and WORKER exchanged
AddNodeContext_swapped(message, node_context) ==
    IF DOMAIN node_context # {}
    THEN Overlay(message,
                 [rayNodeId |-> node_context["node_id"],
                  rayNodeType |-> IF node_context["is_head_node"]
                                  THEN "WORKER" ELSE "HEAD"])
    ELSE message

\* if node_context: message["rayNodeId"] = ...; message["rayNodeType"] = ...
AddNodeContext(message, node_context) ==
    IF DOMAIN node_context # {}
    THEN Overlay(message,
                 [rayNodeId |-> node_context["node_id"],
                  rayNodeType |-> IF node_context["is_head_node"]
                                  THEN "HEAD" ELSE "WORKER"])
    ELSE message

\* cli_logger.abort(msg, *args): ends the operation with the formatted text
Abort(args) == [raised |-> "Abort", diagnostic |-> args]

\* the ClientError left to propagate
ExceptClientError_uncaught(exc, event, call) ==
    [raised |-> "ClientError", diagnostic |-> <<>>, published |-> <<call>>]

\* event_dict = event_data: the same dict under a second name
deepcopy_alias(event_data) == [dict |-> event_data, same_object |-> TRUE]

\* copy.deepcopy(event_data): an equal dict that is another object, so that
\* what is done to it is not done to event_data
deepcopy(event_data) == [dict |-> event_data, same_object |-> FALSE]

\* the ClientError caught, the publish tried a second time, then the abort
ExceptClientError_retry(exc, event, call) ==
    [raised |-> Abort(<<exc.Error, event.name>>).raised,
     diagnostic |-> Abort(<<exc.Error, event.name>>).diagnostic,
     published |-> <<call, call>>]

\* the ClientError caught and only logged: the callback returns
ExceptClientError_logged(exc, event, call) ==
    [raised |-> "none", diagnostic |-> <<>>, published |-> <<call>>]

\* except ClientError as exc: cli_logger.abort(..., exc.response["Error"],
\* event.name)
ExceptClientError(exc, event, call) ==
    [raised |-> Abort(<<exc.Error, event.name>>).raised,
     diagnostic |-> Abort(<<exc.Error, event.name>>).diagnostic,
     published |-> <<call>>]

\* _sns_callback(self, sns_client, event_data, **kwargs), with what
\* sns_client.publish does (outcome) and what time.time() returns (t):
\* [raised, diagnostic, published, event_data], event_data being the caller's
\* dict as the call leaves it
_sns_callback(self_uri, sns_client, event_data, kwargs, outcome, t) ==
    IF "event_name" \notin DOMAIN event_data
    THEN [raised |-> "KeyError", diagnostic |-> <<>>, published |-> <<>>,
          event_data |-> event_data]
    ELSE
    LET copy == deepcopy(event_data)
        event == copy.dict["event_name"]
        event_dict == Without(copy.dict, "event_name")
        after == IF copy.same_object THEN event_dict ELSE event_data
        node_context == IF "node_context" \in DOMAIN event_dict
                        THEN event_dict["node_context"] ELSE EmptyDict
        message == AddNodeContext(BuildMessage(kwargs, event, event_dict, t),
                                  node_context)
        call == [client |-> sns_client, topic |-> self_uri,
                 message |-> message, outcome |-> outcome]
        sent == IF outcome.kind = "ok"
                THEN [raised |-> "none", diagnostic |-> <<>>,
                      published |-> <<call>>]
                ELSE IF outcome.kind = "ClientError"
                THEN ExceptClientError(outcome, event, call)
                ELSE [raised |-> outcome.kind, diagnostic |-> <<>>,
                      published |-> <<call>>]
    IN  [raised |-> sent.raised, diagnostic |-> sent.diagnostic,
         published |-> sent.published, event_data |-> after]

\* the bodies of the three stubs
_lambda_callback ==
    [raised |-> "NotImplementedError", diagnostic |-> <<>>, published |-> <<>>]
_cloudwatch_callback ==
    [raised |-> "NotImplementedError", diagnostic |-> <<>>, published |-> <<>>]
_api_gateway_callback ==
    [raised |-> "NotImplementedError", diagnostic |-> <<>>, published |-> <<>>]

\* positional parameters a handler takes after self, and whether it takes
\* keyword arguments
PositionalParams(handler) == IF handler = "_sns_callback" THEN 2 ELSE 0
TakesKwargs(handler) == handler = "_sns_callback"

\* a call that ends without touching the caller's event data
Untouched(result, event_data) ==
    [raised |-> result.raised, diagnostic |-> result.diagnostic,
     published |-> result.published, event_data |-> event_data]

\* the registry calling a binding with the event data:
\* callback(*args, event_data, **kwargs)
Invoke(b, event_data, outcome, t) ==
    IF \/ Len(b.args) + 1 # PositionalParams(b.handler)
       \/ (DOMAIN b.kwargs # {} /\ ~TakesKwargs(b.handler))
    THEN [raised |-> "TypeError", diagnostic |-> <<>>, published |-> <<>>,
          event_data |-> event_data]
    ELSE IF b.handler = "_sns_callback"
    THEN _sns_callback(b.uri, b.args[1], event_data, b.kwargs, outcome, t)
    ELSE IF b.handler = "_lambda_callback"
    THEN Untouched(_lambda_callback, event_data)
    ELSE IF b.handler = "_cloudwatch_callback"
    THEN Untouched(_cloudwatch_callback, event_data)
    ELSE Untouched(_api_gateway_callback, event_data)

\* execute_callback(event, event_data): the event is put under the reserved
\* key of the event data before the handlers run
WithEventName(event, event_data) ==
    Overlay(event_data, [event_name |-> event])

----------------------------------------------------------------------------
(* State machine *)

IdleFrame == [pc |-> "idle"]
NoResult == [op |-> "none"]

Zero(S) == [x \in S |-> 0]
Init ==
    /\ callback_map = [n \in EventNames |-> <<>>]
    /\ managers = <<>>
    /\ frame = [c \in Callers |-> IdleFrame]
    /\ last = NoResult
    /\ published = Zero(EventNames)
    /\ ncalls = Zero(EventStates)

\* AwsEventPublisher(events_config), by the thread c
AwsEventPublisher(c, events_config) ==
    /\ frame[c].pc = "idle"
    /\ Len(managers) < MaxFacades
    /\ LET r == AwsEventPublisher_init(events_config, callback_map) IN
       /\ callback_map' = r.map
       /\ managers' = IF r.raised = "none" THEN Append(managers, r.self)
                      ELSE managers
       /\ last' = [op |-> "AwsEventPublisher", raised |-> r.raised]
    /\ UNCHANGED <<frame, published, ncalls>>

\* global_event_system.execute_callback(event, event_data) is entered
StartExecute(c, op, counted, event, event_data) ==
    /\ frame[c].pc = "idle"
    /\ frame' = [frame EXCEPT ![c] =
                    [pc |-> "exec", op |-> op, counted |-> counted,
                     event |-> event,
                     event_data |-> WithEventName(event, event_data),
                     idx |-> 0, sent |-> <<>>]]
    /\ last' = NoResult
    /\ UNCHANGED <<callback_map, managers, ncalls>>

\* publish that registers the event's handler again before the fan-out
publish_registering(c, trace_id, event) ==
    /\ managers # <<>>
    /\ frame[c].pc = "idle"
    /\ frame' = [frame EXCEPT ![c] =
                    [pc |-> "exec", op |-> "publish", counted |-> FALSE,
                     event |-> event,
                     event_data |-> WithEventName(event, [foo |-> "bar"]),
                     idx |-> 0, sent |-> <<>>]]
    /\ callback_map' = add_callback(managers[1], event, callback_map).map
    /\ last' = NoResult
    /\ UNCHANGED <<managers, published, ncalls>>

\* publish that sends the trace id along in the event data
publish_traced(c, trace_id, event) ==
    /\ managers # <<>>
    /\ UNCHANGED published
    /\ StartExecute(c, "publish", FALSE, event,
                    [foo |-> "bar", trace_id |-> trace_id])

\* AwsEventPublisher.publish(trace_id, event) of a constructed facade
publish(c, trace_id, event) ==
    /\ managers # <<>>
    /\ UNCHANGED published
    /\ StartExecute(c, "publish", FALSE, event, [foo |-> "bar"])

\* the same, for an event of the catalog that was not published yet; the
\* publish and its transport calls are counted
publish_once(c, trace_id, event) ==
    /\ managers # <<>>
    /\ published[event.name] = 0
    /\ published' = [published EXCEPT ![event.name] = @ + 1]
    /\ StartExecute(c, "publish", TRUE, event, [foo |-> "bar"])

\* another producer of the process calls the registry directly
execute_callback(c, event, event_data) ==
    /\ UNCHANGED published
    /\ StartExecute(c, "execute_callback", FALSE, event, event_data)

Finish(f, raised, diagnostic) ==
    [op |-> f.op, event |-> f.event, event_data |-> f.event_data,
     raised |-> raised, diagnostic |-> diagnostic, sent |-> f.sent,
     invoked |-> f.idx]

\* ncalls after the transport calls `sent` of a handler
Count(n, counted, sent) ==
    IF counted /\ sent # <<>>
    THEN [n EXCEPT ![sent[1].message.state] = @ + 1]
    ELSE n

\* for callback in self.callback_map[event]: one iteration
CallHandler(c) ==
    /\ frame[c].pc = "exec"
    /\ frame[c].idx < Len(callback_map[frame[c].event.name])
    /\ \E outcome \in TransportOutcomes, t \in 0..MaxClock :
         LET f == frame[c]
             b == callback_map[f.event.name][f.idx + 1]
             r == Invoke(b, f.event_data, outcome, t)
             g == [f EXCEPT !.idx = @ + 1, !.sent = @ \o r.published,
                            !.event_data = r.event_data]
         IN  /\ ncalls' = Count(ncalls, f.counted, r.published)
             /\ IF r.raised = "none"
                THEN /\ frame' = [frame EXCEPT ![c] = g]
                     /\ UNCHANGED last
                ELSE /\ frame' = [frame EXCEPT ![c] = IdleFrame]
                     /\ last' = Finish(g, r.raised, r.diagnostic)
    /\ UNCHANGED <<callback_map, managers, published>>

\* the loop is over: execute_callback and publish return
Return(c) ==
    /\ frame[c].pc = "exec"
    /\ frame[c].idx = Len(callback_map[frame[c].event.name])
    /\ frame' = [frame EXCEPT ![c] = IdleFrame]
    /\ last' = Finish(frame[c], "none", <<>>)
    /\ UNCHANGED <<callback_map, managers, published, ncalls>>

\* one thread constructs the facades and reports the lifecycle events
Next ==
    \/ \E cfg \in Configs : AwsEventPublisher(1, cfg)
    \/ \E t \in TraceIds, e \in Events : publish(1, t, e)
    \/ \E e \in Events, p \in HostPayloads : execute_callback(1, e, p)
    \/ CallHandler(1)
    \/ Return(1)

Spec == Init /\ [][Next]_vars

\* one facade is constructed and the events of the catalog are published, each
\* at most once
NextCatalogRun ==
    \/ \E cfg \in Configs : managers = <<>> /\ AwsEventPublisher(1, cfg)
    \/ \E t \in TraceIds, e \in Events : publish_once(1, t, e)
    \/ CallHandler(1)
    \/ Return(1)

SpecCatalogRun == Init /\ [][NextCatalogRun]_vars

\* the facades the threads of SpecConcurrent share
ConcurrentConfigs == {CfgP(SnsTopicA, TeamInfra), CfgP(LogsArn, TeamInfra)}

\* no execute_callback call was entered yet (entering one resets `last`, and
\* leaving one sets it)
Startup ==
    /\ \A c \in Callers : frame[c].pc = "idle"
    /\ last.op \in {"none", "AwsEventPublisher"}

\* one thread constructs the facades at startup; after that the threads of
\* the process publish, each in its own time
NextConcurrent ==
    \/ \E cfg \in ConcurrentConfigs : Startup /\ AwsEventPublisher(1, cfg)
    \/ \E c \in Callers, t \in TraceIds, e \in Events : publish(c, t, e)
    \/ \E c \in Callers : CallHandler(c)
    \/ \E c \in Callers : Return(c)

SpecConcurrent == Init /\ [][NextConcurrent]_vars

----------------------------------------------------------------------------
(* What the properties talk about *)

Idle == \A c \in Callers : frame[c].pc = "idle"

IsPubSub(uri) == StartsWith(uri, ARN_SNS)
IsStub(uri) ==
    /\ ~StartsWith(uri, ARN_SNS)
    /\ \/ StartsWith(uri, ARN_LAMBDA)
       \/ StartsWith(uri, ARN_LOGS)
       \/ StartsWith(uri, ARN_APIGATEWAY)
IsRecognized(uri) == IsPubSub(uri) \/ IsStub(uri)

Facades == 1..Len(managers)
AllPubSub == \A i \in Facades : IsPubSub(managers[i].uri)

\* the last operation was an execute_callback call (through publish or not)
LastExecuted == last.op \in {"publish", "execute_callback"}

\* every transport call whose message the state still holds, with the event
\* data its handler was given and the keyword arguments of its binding (a
\* handler that makes no call ends the loop, so the i-th call is the i-th
\* binding's)
DeliveriesOf(f) ==
    {[call |-> f.sent[i], event_data |-> f.event_data,
      kwargs |-> callback_map[f.event.name][i].kwargs] :
         i \in 1..Len(f.sent)}
FrameDeliveries(c) ==
    IF frame[c].pc = "exec" THEN DeliveriesOf(frame[c]) ELSE {}
LastDeliveries ==
    IF LastExecuted THEN DeliveriesOf(last) ELSE {}
Deliveries == LastDeliveries \cup UNION {FrameDeliveries(c) : c \in Callers}

ComputedKeys == {"state", "setupEventMetadata", "stateSequence", "timestamp"}
NodeKeys == {"rayNodeId", "rayNodeType"}

----------------------------------------------------------------------------
(* C1 *)

OneFacadeOnPubSub == Len(managers) = 1 /\ IsPubSub(managers[1].uri)

\* C1: with one facade, constructed on a pub/sub target, every publish of a
\* catalog event makes exactly one transport call and its message carries the
\* event's display name as `state`: once the publishes have ended, the calls
\* made with an event's display name are as many as the publishes of the event
\* (N calls for N events published once each).
C1_OneCallPerPublish ==
    OneFacadeOnPubSub =>
        /\ Idle => \A e \in Events : ncalls[e.state] = published[e.name]
        /\ last.op = "publish" =>
              /\ last.invoked = 1
              /\ Len(last.sent) = 1
              /\ last.sent[1].message["state"] = last.event.state
              /\ last.sent[1].topic = managers[1].uri

C1_Witness ==
    /\ OneFacadeOnPubSub
    /\ Idle
    /\ \A e \in Events : published[e.name] = 1 /\ ncalls[e.state] = 1
    /\ last.op = "publish"

----------------------------------------------------------------------------
(* C2 *)

\* C2: after k facades have been constructed on pub/sub targets, and any
\* number of publishes, every catalog event has exactly k bindings, the i-th
\* being the one the i-th facade registered (its handler, its target, its
\* client and its parameters), and a publish that returns has made k transport
\* calls.
C2_FanOutNotOverwrite ==
    AllPubSub =>
        /\ \A e \in Events :
              /\ Len(callback_map[e.name]) = Len(managers)
              /\ \A i \in Facades :
                    callback_map[e.name][i] =
                        [handler |-> "_sns_callback",
                         uri |-> managers[i].uri,
                         args |-> <<[client |-> "sns",
                                     region |-> Split(managers[i].uri)[4]]>>,
                         kwargs |-> managers[i].parameters]
        /\ (last.op = "publish" /\ last.raised = "none") =>
              /\ Len(last.sent) = Len(managers)
              /\ \A i \in Facades : last.sent[i].topic = managers[i].uri

C2_Witness ==
    /\ Len(managers) = 2
    /\ managers[1].uri = SnsTopicA
    /\ managers[2].uri = SnsTopicA
    /\ last.op = "publish"
    /\ last.raised = "none"
    /\ Len(last.sent) = 2

----------------------------------------------------------------------------
(* C3 *)

\* C3: a facade whose identifier passes construction but starts with none of
\* the four backend prefixes adds no binding: every event has as many bindings
\* as there are facades with a recognized prefix, and when no facade has one,
\* a publish returns without an error and without a transport call.
C3_UnmatchedSchemeIsNoOp ==
    /\ \A e \in Events :
          Len(callback_map[e.name]) =
              Cardinality({i \in Facades : IsRecognized(managers[i].uri)})
    /\ (\A i \in Facades : ~IsRecognized(managers[i].uri)) =>
          /\ \A e \in Events : callback_map[e.name] = <<>>
          /\ \A c \in Callers : frame[c].pc = "exec" => frame[c].sent = <<>>
          /\ last.op = "publish" =>
                last.raised = "none" /\ last.sent = <<>> /\ last.invoked = 0

C3_Witness ==
    /\ Len(managers) = 2
    /\ managers[1].uri = S3Arn
    /\ managers[2].uri = EmbeddedArn
    /\ last.op = "publish"
    /\ last.raised = "none"
    /\ last.sent = <<>>

----------------------------------------------------------------------------
(* C4 *)

ConfigurationErrors == {"KeyError", "AssertionError"}

\* C4: constructing the facade from a configuration whose notification
\* identifier is missing, None, empty or not shaped like an ARN fails with a
\* configuration error, and the registry after the failed construction is the
\* registry before it.
C4_MalformedFailsBeforeRegistration ==
    [][\A cfg \in BadConfigs :
          AwsEventPublisher(1, cfg) =>
              /\ last'.op = "AwsEventPublisher"
              /\ last'.raised \in ConfigurationErrors
              /\ callback_map' = callback_map
              /\ managers' = managers]_vars

C4_Witness ==
    /\ last.op = "AwsEventPublisher"
    /\ last.raised = "AssertionError"
    /\ Len(managers) = 1
    /\ \A e \in Events : Len(callback_map[e.name]) = 1

----------------------------------------------------------------------------
(* C5 *)

AllStubs == managers # <<>> /\ \A i \in Facades : IsStub(managers[i].uri)

\* C5: for a target of one of the three unimplemented backends (function, log
\* stream, gateway) the construction succeeds and registers one binding per
\* catalog event, and a publish fails with the stub's "not implemented"
\* signal, not with any other error.
C5_StubFailsAsNotImplemented ==
    AllStubs =>
        /\ \A e \in Events : Len(callback_map[e.name]) = Len(managers)
        /\ last.op = "publish" =>
              last.raised = "NotImplementedError" /\ last.sent = <<>>

----------------------------------------------------------------------------
(* C6 *)

\* C6: when the transport client's publish fails with a client error inside
\* the pub/sub callback, the callback neither returns normally nor lets the
\* exception through: it ends in an abort whose diagnostic holds the backend's
\* error detail and the display name of the event; any other failure of the
\* transport is propagated as it is; and the callback returns normally only
\* after a delivered call.
C6_ClientErrorBecomesAbort ==
    /\ \A c \in Callers : frame[c].pc = "exec" =>
          \A i \in 1..Len(frame[c].sent) : frame[c].sent[i].outcome = Delivered
    /\ (LastExecuted /\ last.sent # <<>>) =>
          LET n == Len(last.sent)
              failure == last.sent[n].outcome
          IN  /\ \A i \in 1..(n - 1) : last.sent[i].outcome = Delivered
              /\ failure.kind = "ClientError" =>
                    /\ last.raised = "Abort"
                    /\ last.diagnostic = <<failure.Error, last.event.state>>
              /\ failure.kind = "EndpointConnectionError" =>
                    /\ last.raised = "EndpointConnectionError"
                    /\ last.diagnostic = <<>>
              /\ failure.kind = "ok" => last.raised # "Abort"
    /\ (LastExecuted /\ last.raised = "Abort") => last.sent # <<>>

C6_Witness ==
    /\ last.op = "publish"
    /\ last.raised = "Abort"
    /\ last.event.state = "ScriptInProgress"
    /\ last.diagnostic = <<[Code |-> "Throttling"], "ScriptInProgress">>

----------------------------------------------------------------------------
(* C7 *)

\* C7: publishing an event through the facade on a pub/sub target with
\* parameters P and no node context produces exactly one message, whose keys
\* are the keys of P plus state, setupEventMetadata, stateSequence and
\* timestamp, with setupEventMetadata the empty mapping.
C7_PublishedMessageShape ==
    (OneFacadeOnPubSub /\ last.op = "publish" /\ last.raised = "none") =>
        /\ Len(last.sent) = 1
        /\ DOMAIN last.sent[1].message =
              DOMAIN managers[1].parameters \cup ComputedKeys
        /\ last.sent[1].message["setupEventMetadata"] = EmptyDict

----------------------------------------------------------------------------
(* C8 *)

NodeContextOf(event_data) ==
    IF "node_context" \in DOMAIN event_data
    THEN event_data["node_context"] ELSE EmptyDict

\* the message has key k with value v
Has(message, k, v) == k \in DOMAIN message /\ message[k] = v

----------------------------------------------------------------------------
(* C9 *)

AllRecognized == \A i \in Facades : IsRecognized(managers[i].uri)

\* C9 as stated: whichever of the four prefixes matched, the context stored
\* with the binding is the target's parameters.
C9_ContextAsStated ==
    AllRecognized =>
        \A e \in Events : \A i \in 1..Len(callback_map[e.name]) :
            i \in Facades =>
                callback_map[e.name][i].kwargs = managers[i].parameters

\* C9 (amended): the binding registered for the pub/sub prefix is bound with
\* the target's parameters as its context; the bindings registered for the
\* function, log-stream and gateway prefixes are bound with no context.
C9_Context ==
    AllRecognized =>
        \A e \in Events : \A i \in 1..Len(callback_map[e.name]) :
            i \in Facades =>
                callback_map[e.name][i].kwargs =
                    IF IsPubSub(managers[i].uri)
                    THEN managers[i].parameters ELSE EmptyDict

C9_Witness ==
    /\ Len(managers) = 2
    /\ managers[1] = [uri |-> LambdaArn, parameters |-> TeamInfra]
    /\ managers[2] = [uri |-> SnsTopicA, parameters |-> TeamInfra]
    /\ callback_map["ScriptStarted"][1].kwargs = EmptyDict
    /\ callback_map["ScriptStarted"][2].kwargs = TeamInfra

----------------------------------------------------------------------------
(* C10 *)

\* C10: for every catalog event and every message the pub/sub callback
\* publishes for it, stateSequence is the event's rank minus 1, and is never
\* negative.
C10_StateSequence ==
    \A d \in Deliveries :
        /\ d.call.message["stateSequence"] = d.event_data["event_name"].value - 1
        /\ d.call.message["stateSequence"] >= 0

C10_Witness ==
    /\ last.op = "publish"
    /\ last.sent # <<>>
    /\ last.event.value = 1
    /\ last.sent[1].message["stateSequence"] = 0

----------------------------------------------------------------------------
(* C11 *)

\* the transport calls of an execute_callback call went, in this order, to the
\* targets of the first facades
InFacadeOrder(sent) ==
    /\ Len(sent) <= Len(managers)
    /\ \A i \in 1..Len(sent) : sent[i].topic = managers[i].uri

\* C11: handlers run in registration order. When every facade is on a pub/sub
\* target, the bindings of every event name the facades' targets in the order
\* the facades were constructed, and in every publish, in progress or ended,
\* returned or failed, the i-th transport call goes to the target of the i-th
\* facade: the call for an earlier facade's target comes before the call for a
\* later facade's target, in every publish alike.
C11_RegistrationOrder ==
    AllPubSub =>
        /\ \A e \in Events : \A i \in 1..Len(callback_map[e.name]) :
              i \in Facades /\ callback_map[e.name][i].uri = managers[i].uri
        /\ \A c \in Callers :
              frame[c].pc = "exec" => InFacadeOrder(frame[c].sent)
        /\ LastExecuted => InFacadeOrder(last.sent)

C11_Witness ==
    /\ Len(managers) = 2
    /\ managers[1].uri = SnsTopicA
    /\ managers[2].uri = SnsTopicB
    /\ last.op = "publish"
    /\ Len(last.sent) = 2
    /\ last.sent[1].topic = SnsTopicA
    /\ last.sent[2].topic = SnsTopicB

----------------------------------------------------------------------------
(* C12 *)

\* how many of the first n bindings of the event are pub/sub bindings
SnsAmong(event, n) ==
    Cardinality({i \in 1..n :
                    callback_map[event.name][i].handler = "_sns_callback"})

AllDelivered(sent) == \A i \in 1..Len(sent) : sent[i].outcome = Delivered

\* C12: the fan-out has no failure isolation. While an execute_callback call
\* is in progress every handler invoked so far has returned, each pub/sub one
\* after a delivered call. A call that ended with a failure ended at the first
\* handler that failed: the failure is what the caller gets, the failing
\* binding is the last one invoked and may have bindings after it that were
\* not invoked, and the calls of the pub/sub handlers before it are all there,
\* delivered. A call ends without a failure only after every binding was
\* invoked and every transport call was delivered.
C12_NoFailureIsolation ==
    /\ \A c \in Callers : frame[c].pc = "exec" =>
          /\ frame[c].idx <= Len(callback_map[frame[c].event.name])
          /\ Len(frame[c].sent) = SnsAmong(frame[c].event, frame[c].idx)
          /\ AllDelivered(frame[c].sent)
    /\ LastExecuted =>
          LET k == Len(callback_map[last.event.name])
              n == Len(last.sent)
          IN  IF last.raised = "none"
              THEN /\ last.invoked = k
                   /\ n = SnsAmong(last.event, k)
                   /\ AllDelivered(last.sent)
              ELSE /\ last.invoked \in 1..k
                   /\ n = SnsAmong(last.event, last.invoked)
                   /\ LET failing == callback_map[last.event.name][last.invoked]
                      IN  IF failing.handler = "_sns_callback"
                          THEN /\ AllDelivered(SubSeq(last.sent, 1, n - 1))
                               /\ last.sent[n].outcome # Delivered
                               /\ last.sent[n].topic = failing.uri
                               /\ last.raised \in
                                      {"Abort", "EndpointConnectionError"}
                          ELSE AllDelivered(last.sent)

C12_Witness ==
    /\ Len(managers) = 2
    /\ AllPubSub
    /\ last.op = "publish"
    /\ last.raised = "Abort"
    /\ last.invoked = 1
    /\ Len(callback_map[last.event.name]) = 2
    /\ Len(last.sent) = 1

----------------------------------------------------------------------------
(* C13 *)

\* the event data a finished or running execute_callback call holds is still
\* what the call was entered with
Intact(f) ==
    /\ "event_name" \in DOMAIN f.event_data
    /\ f.event_data["event_name"] = f.event

\* C13: the pub/sub callback never mutates the payload it receives. A step
\* in which a handler is invoked, whether it returns, aborts or fails, leaves
\* the event data of the call (the reserved event key and the node-context
\* key included) equal to what it was before the step, so the next handler is
\* given the event data the previous one was given.
C13_PayloadNotMutated ==
    [][\A c \in Callers :
          (frame[c].pc = "exec" /\ frame'[c] # frame[c]) =>
              IF frame'[c].pc = "exec"
              THEN frame'[c].event_data = frame[c].event_data
              ELSE /\ last'.event_data = frame[c].event_data
                   /\ Intact(last')]_vars

C13_Witness ==
    /\ last.op = "execute_callback"
    /\ last.raised = "Abort"
    /\ Len(last.sent) = 2
    /\ last.sent[1].message["setupEventMetadata"] =
          last.sent[2].message["setupEventMetadata"]
    /\ Intact(last)
    /\ NodeContextOf(last.event_data) = HeadNode

----------------------------------------------------------------------------
(* C14 *)

\* the keys of the event data that the callback reads: event_dict.pop(
\* "event_name") and event_dict.get("node_context", {})
ReservedKeys == {"event_name", "node_context"}

\* C14: in every message built by the pub/sub callback, setupEventMetadata is
\* the event data without the reserved keys: it has neither the event key nor
\* the node-context key, and it has every other entry of the event data with
\* its value, also when the event data carries a node context.
C14_MetadataMinusReserved ==
    \A d \in Deliveries :
        LET metadata == d.call.message["setupEventMetadata"] IN
        /\ DOMAIN metadata = DOMAIN d.event_data \ ReservedKeys
        /\ \A k \in DOMAIN metadata : metadata[k] = d.event_data[k]

----------------------------------------------------------------------------
(* C15 *)

\* the four fields of lines 86-89 carry what the callback computes
ComputedFields(d) ==
    LET m == d.call.message
        event == d.event_data["event_name"]
    IN  /\ m["state"] = event.state
        /\ m["setupEventMetadata"] = Without(d.event_data, "event_name")
        /\ m["stateSequence"] = event.value - 1
        /\ m["timestamp"] \in 0..MaxClock

\* C15 as stated: the four computed fields override the parameters, and every
\* parameter whose key is none of the four is in the message with its own
\* value.
C15_OverrideAsStated ==
    \A d \in Deliveries :
        /\ ComputedFields(d)
        /\ \A k \in DOMAIN d.kwargs \ ComputedKeys :
              Has(d.call.message, k, d.kwargs[k])

\* C15 (amended): the fields the callback writes override the parameters:
\* state, setupEventMetadata, stateSequence and timestamp always carry the
\* computed value, and when the payload has a non-empty node context so do
\* rayNodeId and rayNodeType; every parameter whose key is none of the fields
\* written is in the message with its own value.
C15_Override ==
    \A d \in Deliveries :
        LET written == IF DOMAIN NodeContextOf(d.event_data) = {}
                       THEN ComputedKeys ELSE ComputedKeys \cup NodeKeys
        IN  /\ ComputedFields(d)
            /\ NodeKeys \subseteq written =>
                  Has(d.call.message, "rayNodeId",
                      NodeContextOf(d.event_data)["node_id"])
            /\ \A k \in DOMAIN d.kwargs \ written :
                  Has(d.call.message, k, d.kwargs[k])

C15_Witness ==
    \E d \in Deliveries :
        /\ d.kwargs = Overrides
        /\ NodeContextOf(d.event_data) = HeadNode
        /\ d.call.message["state"] = d.event_data["event_name"].state
        /\ d.call.message["state"] # Overrides["state"]
        /\ d.call.message["team"] = "infra"
        /\ d.call.message["rayNodeId"] = "i-1"

----------------------------------------------------------------------------
(* C16 *)

\* some thread is inside publish
InPublish(f) == \E c \in Callers : f[c].pc = "exec"

\* C16: publish never changes the registry. Whatever the interleaving of the
\* threads' publish calls, every step that enters a publish, runs one of its
\* handlers or ends it, with a return or with a failure, leaves the registry
\* (every event's sequence of bindings, with their contexts) as it was; once
\* the first publish has begun every step is such a step, so the registry
\* stays what it was at the end of the construction.
C16_PublishLeavesRegistry ==
    [][(InPublish(frame) \/ InPublish(frame')) =>
          /\ callback_map' = callback_map
          /\ managers' = managers]_vars

C16_Witness ==
    /\ Len(managers) = 2
    /\ \A e \in Events : Len(callback_map[e.name]) = 2
    /\ frame[1].pc = "exec"
    /\ frame[1].idx = 1
    /\ frame[2].pc = "idle"
    /\ last.op = "publish"
    /\ last.raised = "Abort"
    /\ last.event = frame[1].event

----------------------------------------------------------------------------
(* C17 *)

\* the transport calls of thread c's execute_callback call after a step that
\* ran or ended it
SentAfter(c) == IF frame'[c].pc = "exec" THEN frame'[c].sent ELSE last'.sent

\* C17: a delivery is never retried. A step in which a handler of a publish
\* is invoked adds at most one transport call to the calls the publish has
\* made, whether the call is delivered or fails; the call added is the
\* invoked pub/sub binding's, made with the target identifier the binding's
\* facade was configured with; and the calls of one publish are never more
\* than the bindings of the event.
C17_NeverRetried ==
    [][\A c \in Callers :
          (frame[c].pc = "exec" /\ frame'[c] # frame[c]) =>
              LET before == frame[c].sent
                  k == Len(callback_map[frame[c].event.name])
                  b == callback_map[frame[c].event.name][frame[c].idx + 1]
              IN  /\ Len(SentAfter(c)) \in {Len(before), Len(before) + 1}
                  /\ SubSeq(SentAfter(c), 1, Len(before)) = before
                  /\ Len(SentAfter(c)) <= k
                  /\ Len(SentAfter(c)) = Len(before) + 1 =>
                        /\ b.handler = "_sns_callback"
                        /\ SentAfter(c)[Len(before) + 1].topic = b.uri
                        /\ \E i \in Facades : managers[i].uri = b.uri]_vars

C17_Witness ==
    /\ last.op = "publish"
    /\ last.raised = "Abort"
    /\ last.invoked = 2
    /\ Len(last.sent) = 2
    /\ last.sent[2].outcome.kind = "ClientError"
    /\ last.sent[2].topic = managers[2].uri

----------------------------------------------------------------------------
(* C18 *)

\* the fields other than the timestamp of the messages of a publish are what
\* the event and the binding give
FieldsOfPublish(f) ==
    \A d \in DeliveriesOf(f) :
        LET m == d.call.message IN
        /\ f.event_data = [foo |-> "bar", event_name |-> f.event]
        /\ DOMAIN m = DOMAIN d.kwargs \cup ComputedKeys
        /\ m["state"] = f.event.state
        /\ m["setupEventMetadata"] = [foo |-> "bar"]
        /\ m["stateSequence"] = f.event.value - 1
        /\ \A k \in DOMAIN d.kwargs \ ComputedKeys : m[k] = d.kwargs[k]

\* the execute_callback call of thread c after a step that ran or ended it
CallAfter(c) == IF frame'[c].pc = "exec" THEN frame'[c] ELSE last'

\* C18: the trace_id given to publish has no effect. A step in which a
\* thread enters publish for an event is the publish step of that event with
\* every trace id: the state it leaves, from which the handlers are invoked
\* and the messages built, is the same whichever trace id was given. In every
\* message of a publish each field other than the timestamp is determined by
\* the event and the binding (parameters, display name, the facade's fixed
\* payload, rank minus 1), so no field carries the trace id.
C18_TraceIdHasNoEffect ==
    [][\A c \in Callers :
          /\ (/\ frame[c].pc = "idle"
              /\ frame'[c].pc = "exec"
              /\ frame'[c].op = "publish") =>
                 \A t \in TraceIds : publish(c, t, frame'[c].event)
          /\ (/\ frame[c].pc = "exec"
              /\ frame[c].op = "publish"
              /\ frame'[c] # frame[c]) => FieldsOfPublish(CallAfter(c))]_vars

C18_Witness ==
    /\ last.op = "publish"
    /\ last.raised = "none"
    /\ Len(last.sent) = 2
    /\ Without(last.sent[1].message, "timestamp") =
          Without(last.sent[2].message, "timestamp")
    /\ last.sent[1].message["timestamp"] # last.sent[2].message["timestamp"]

----------------------------------------------------------------------------
(* C19 *)

\* the configuration passes AwsEventManager.__init__ and its identifier
\* starts with the pub/sub prefix
AcceptedPubSub(cfg) ==
    /\ AwsEventManager_init(cfg).raised = "none"
    /\ IsPubSub(cfg["notification_uri"])

\* C19: registration cannot fail for an accepted pub/sub target. For every
\* identifier that passes the construction-time validation and starts with
\* the pub/sub prefix, also one with fewer than four colon-separated fields,
\* constructing the facade ends without an error and adds one binding to
\* every catalog event.
C19_AcceptedPubSubRegisters ==
    [][\A cfg \in Configs :
          (AcceptedPubSub(cfg) /\ AwsEventPublisher(1, cfg)) =>
              /\ last'.raised = "none"
              /\ \A e \in Events :
                    Len(callback_map'[e.name]) = Len(callback_map[e.name]) + 1
      ]_vars

====
